---- MODULE Spec2Model ----
(***************************************************************************)
(* Model of the inventory system's two scripts.                            *)
(*                                                                         *)
(*   migrate.py   migrate_from_file: the importer of a legacy export       *)
(*   validate.py  run_validation_tests: the scripted CRUD validator        *)
(*                                                                         *)
(* Both drive the persistence API (src/utils/db, src/models/*,             *)
(* src/utils/migration), which is not among the source files; the API is   *)
(* modelled from the specification and from what its callers check.        *)
(***************************************************************************)
EXTENDS Integers, Sequences, FiniteSets, TLC

(***************************************************************************)
(* Bounds of the model.                                                    *)
(***************************************************************************)
\* Most records an export holds, all categories together.
MaxRecords == 3
\* Products of the load test (num_products, 100 in validate.py line 292).
NumProducts == 2

(***************************************************************************)
(* The persistence store.                                                  *)
(***************************************************************************)
NoId == 0
NoRow == [id |-> 0]

Categories == {"products", "branches", "inventory", "waste", "purchases", "invoices"}
TailCategories == {"waste", "purchases", "invoices"}

\* The order in which the importer processes the categories.
CategoryOrder == <<"products", "branches", "inventory", "waste", "purchases", "invoices">>

\* datetime.now() of the run: one month and year per run.
now == [month |-> 11, year |-> 2026]

\* A database file without schema, as before the first init_db.
FreshDb ==
  [schema |-> FALSE, products |-> {}, branches |-> {}, inventory |-> {},
   tail |-> [c \in TailCategories |-> 0],
   nextId |-> [t \in {"products", "branches", "inventory"} |-> 1]]

\* init_db: creates the schema; the rows are kept.
init_db(d) == [d EXCEPT !.schema = TRUE]

get_product_by_id(d, id) ==
  IF \E r \in d.products : r.id = id
  THEN CHOOSE r \in d.products : r.id = id
  ELSE NoRow

get_branch_by_id(d, id) ==
  IF \E r \in d.branches : r.id = id
  THEN CHOOSE r \in d.branches : r.id = id
  ELSE NoRow

get_inventory_by_id(d, id) ==
  IF \E r \in d.inventory : r.id = id
  THEN CHOOSE r \in d.inventory : r.id = id
  ELSE NoRow

get_inventory_by_product_branch_month(d, p, b, m, y) ==
  IF \E r \in d.inventory : r.product_id = p /\ r.branch_id = b /\ r.month = m /\ r.year = y
  THEN CHOOSE r \in d.inventory : r.product_id = p /\ r.branch_id = b /\ r.month = m /\ r.year = y
  ELSE NoRow

\* create_product: a new row under the next id of the table.
create_product(d, name, price) ==
  [d EXCEPT !.products = @ \cup {[id |-> d.nextId.products, name |-> name, price |-> price]},
            !.nextId.products = @ + 1]

create_branch(d, name) ==
  [d EXCEPT !.branches = @ \cup {[id |-> d.nextId.branches, name |-> name]},
            !.nextId.branches = @ + 1]

update_product(d, id, name, price) ==
  [d EXCEPT !.products = {IF r.id = id THEN [r EXCEPT !.name = name, !.price = price] ELSE r : r \in @}]

update_branch(d, id, name) ==
  [d EXCEPT !.branches = {IF r.id = id THEN [r EXCEPT !.name = name] ELSE r : r \in @}]

delete_product(d, id) == [d EXCEPT !.products = {r \in @ : r.id # id}]

delete_branch(d, id) == [d EXCEPT !.branches = {r \in @ : r.id # id}]

delete_inventory(d, id) == [d EXCEPT !.inventory = {r \in @ : r.id # id}]

\* Referential integrity: an inventory row names an existing product and branch.
ReferencesExist(d, p, b) ==
  /\ \E r \in d.products : r.id = p
  /\ \E r \in d.branches : r.id = b

\* A new inventory row under the next id of the table, and that id.
InsertInventory(d, p, b, q, m, y) ==
  [db |-> [d EXCEPT !.inventory = @ \cup {[id |-> d.nextId.inventory, product_id |-> p,
                                           branch_id |-> b, month |-> m, year |-> y,
                                           quantity |-> q]},
                    !.nextId.inventory = @ + 1],
   id |-> d.nextId.inventory]

\* (mutant) every call inserts a row.
create_inventory_always(d, p, b, q, m, y) == InsertInventory(d, p, b, q, m, y)

\* create_or_update_inventory: the row of (product, branch, month, year) gets
\* the quantity if there is one, and a new row is inserted otherwise; the
\* store it leaves and the id of the row it wrote.
create_or_update_inventory(d, p, b, q, m, y) ==
  LET old == get_inventory_by_product_branch_month(d, p, b, m, y) IN
    IF old # NoRow
    THEN [db |-> [d EXCEPT !.inventory =
                    {IF r.id = old.id THEN [r EXCEPT !.quantity = q] ELSE r : r \in @}],
          id |-> old.id]
    ELSE InsertInventory(d, p, b, q, m, y)

\* A create of one of the categories waste, purchases, invoices.
create_tail(d, c) == [d EXCEPT !.tail[c] = @ + 1]

(***************************************************************************)
(* The importer's input.                                                   *)
(***************************************************************************)
ProductNames == {"A", "B"}
BranchNames == {"X"}

\* A record of the export: valid when it carries the required fields.
RecordsOf(c) ==
  CASE c = "products" -> {[valid |-> TRUE, name |-> n] : n \in ProductNames}
                           \cup {[valid |-> FALSE, name |-> ""]}
    [] c = "branches" -> {[valid |-> TRUE, name |-> n] : n \in BranchNames}
                           \cup {[valid |-> FALSE, name |-> ""]}
    [] c = "inventory" -> {[valid |-> TRUE, product |-> p, branch |-> b] :
                              p \in ProductNames, b \in BranchNames}
                           \cup {[valid |-> FALSE, product |-> "", branch |-> ""]}
    [] OTHER -> {[valid |-> TRUE], [valid |-> FALSE]}

SeqsUpTo(S, n) == UNION {[1..k -> S] : k \in 0..n}

\* The lists of at most n records an export may hold under category c.
ListsOf(c, n) == SeqsUpTo(RecordsOf(c), n)

\* The orders in which an export may list its category keys.
KeyOrders ==
  {CategoryOrder,
   <<"inventory", "invoices", "purchases", "waste", "branches", "products">>}

\* The file handed to migrate_from_file: its extension, whether open() and
\* read() succeed on it, and what it holds: a parsable export, text that is
\* not parsable JSON, or (an HTML file) no local-storage payload at all.
Files ==
  {f \in [ext : {"json", "html", "txt"}, readable : BOOLEAN,
           body : {"export", "malformed", "nopayload"}] :
     f.body = "nopayload" => f.ext = "html"}

(***************************************************************************)
(* State.                                                                  *)
(***************************************************************************)
VARIABLES
  db,          \* the persistence store
  \* ---- migrate.py
  file,        \* the file of the call
  mpc,         \* where migrate_from_file is
  data,        \* the text handed to migrate_from_json
  keyOrder,    \* the order of the category keys in the parsed export
  pos,         \* index of the category being processed
  pending,     \* records of the current category not yet processed
  acc,         \* counts and errors accumulated by migrate_from_json
  result,      \* what migrate_from_file returned
  dbBefore,    \* history: the store when the call began
  visited,     \* history: categories in the order their processing began
  given,       \* history: number of records each category's list held
  made,        \* history: records per category that were valid and created
  createdRefs, \* history: product and branch names this run created
  refFailures, \* history: inventory records refused for a missing reference
  \* ---- validate.py
  vpc,         \* where run_validation_tests is
  idx,         \* index of the test group of the loop of line 352
  results,     \* results of line 349: test name -> boolean
  all_passed,  \* all_passed of line 350
  exitCode,    \* <<the process exit code of line 378>>, NoExit while running
  loc,         \* the local variables of the running test function
  started,     \* history: test groups in the order they were started
  verdict,     \* history: how each test function ended: true, false or raise
  created,     \* history: rows the test functions created
  issued,      \* history: deletes called, in order
  failed       \* history: deletes that returned false

mvars == <<file, mpc, data, keyOrder, pos, pending, acc, result, dbBefore,
           visited, given, made, createdRefs, refFailures>>

vvars == <<vpc, idx, results, all_passed, exitCode, loc, started, verdict,
           created, issued, failed>>

NoResult == [keys |-> {}]

NoExit == <<>>

\* The locals of a test function before it assigns them.
NoLocals ==
  [product_id |-> NoId, branch_id |-> NoId, inventory_id |-> NoId,
   updated_id |-> NoId, product_ids |-> <<>>, i |-> 0,
   fetched |-> [at |-> "", row |-> NoRow]]

ZeroCounts == [c \in Categories |-> 0]

\* The importer's constant values for the fields the model does not vary.
ImportPrice == 1
ImportQuantity == 10

(***************************************************************************)
(* migrate.py                                                              *)
(***************************************************************************)
\* The result of line 48: no 'errors' key.
UnsupportedResult ==
  [keys |-> {"success", "error"}, success |-> FALSE,
   error |-> "Unsupported file type. Use .json or .html"]

\* migrate_from_json's result when the text cannot be parsed.
ParseFailure ==
  [keys |-> {"success", "error", "errors"}, success |-> FALSE,
   error |-> "undecodable", errors |-> <<"undecodable">>]

\* migrate_from_json's result when the text parsed.
MigrationResult(a) ==
  [keys |-> Categories \cup {"success", "errors"}, success |-> TRUE,
   counts |-> a.counts, errors |-> a.errors]

\* extract_localstorage_from_html on a readable document: the payload's text,
\* and with no payload either an exception or an empty value.
extract_localstorage_from_html(body) ==
  IF body = "nopayload" THEN {"raise", "empty"} ELSE {body}

\* (mutant) the categories are walked in the key order of the export.
ProcessingOrderOfKeys(ko) == ko

\* The order in which migrate_from_json walks the categories of an export
\* whose keys come in order ko.
ProcessingOrder(ko) == CategoryOrder

\* (mutant) a record the create operation refused is counted all the same.
AccountRefusedToo(a, c, outcome) ==
  IF outcome \in {"created", "rejected"}
  THEN [a EXCEPT !.counts[c] = @ + 1]
  ELSE [a EXCEPT !.errors = Append(@, [cat |-> c, why |-> outcome])]

\* One record accounted for: a created record counts, any other adds an error.
Account(a, c, outcome) ==
  IF outcome = "created"
  THEN [a EXCEPT !.counts[c] = @ + 1]
  ELSE [a EXCEPT !.errors = Append(@, [cat |-> c, why |-> outcome])]

\* The id of a row with this name in a table, NoId if there is none.
IdByName(rows, name) ==
  IF \E r \in rows : r.name = name
  THEN (CHOOSE r \in rows : r.name = name).id
  ELSE NoId

\* The number of records of the lists taken from the export so far.
Total(g) ==
  g["products"] + g["branches"] + g["inventory"] + g["waste"] + g["purchases"] + g["invoices"]

\* Lines 23-27: create_app, then init_db, before the file type is looked at.
M_InitDb ==
  /\ mpc = "start"
  /\ db' = init_db(db)
  /\ mpc' = "check"
  /\ UNCHANGED <<file, data, keyOrder, pos, pending, acc, result, dbBefore,
                 visited, given, made, createdRefs, refFailures, vvars>>

\* Lines 47-48: neither .json nor .html.
M_Unsupported ==
  /\ mpc = "check"
  /\ file.ext \notin {"json", "html"}
  /\ result' = UnsupportedResult
  /\ mpc' = "returned"
  /\ UNCHANGED <<db, file, data, keyOrder, pos, pending, acc, dbBefore,
                 visited, given, made, createdRefs, refFailures, vvars>>

\* Lines 30-33 and 37-40: open and read; an exception of open() or read()
\* is handled nowhere and ends the call.
M_ReadFile ==
  /\ mpc = "check"
  /\ file.ext \in {"json", "html"}
  /\ IF ~file.readable
     THEN mpc' = "crashed" /\ data' = data
     ELSE IF file.ext = "json"
          THEN mpc' = "parse" /\ data' = file.body
          ELSE mpc' = "extract" /\ data' = data
  /\ UNCHANGED <<db, file, keyOrder, pos, pending, acc, result, dbBefore,
                 visited, given, made, createdRefs, refFailures, vvars>>

\* Line 43: the call of extract_localstorage_from_html, in no try block.
M_Extract ==
  /\ mpc = "extract"
  /\ \E x \in extract_localstorage_from_html(file.body) :
       IF x = "raise"
       THEN mpc' = "crashed" /\ data' = data
       ELSE mpc' = "parse" /\ data' = x
  /\ UNCHANGED <<db, file, keyOrder, pos, pending, acc, result, dbBefore,
                 visited, given, made, createdRefs, refFailures, vvars>>

\* (mutant) the categories are walked without the text having been parsed.
M_ParseDeferred ==
  /\ mpc = "parse"
  /\ \E ko \in KeyOrders : keyOrder' = ko
  /\ pos' = 1
  /\ mpc' = "category"
  /\ UNCHANGED <<db, file, data, pending, acc, result, dbBefore,
                 visited, given, made, createdRefs, refFailures, vvars>>

\* migrate_from_json, first step: the text is parsed before anything else.
M_Parse ==
  /\ mpc = "parse"
  /\ IF data = "export"
     THEN /\ \E ko \in KeyOrders : keyOrder' = ko
          /\ pos' = 1
          /\ mpc' = "category"
          /\ result' = result
     ELSE /\ result' = ParseFailure
          /\ mpc' = "returned"
          /\ UNCHANGED <<keyOrder, pos>>
  /\ UNCHANGED <<db, file, data, pending, acc, dbBefore,
                 visited, given, made, createdRefs, refFailures, vvars>>

\* migrate_from_json: the next category's list is taken from the export.
M_Category ==
  /\ mpc = "category"
  /\ pos <= Len(ProcessingOrder(keyOrder))
  /\ LET c == ProcessingOrder(keyOrder)[pos] IN
       /\ \E l \in ListsOf(c, MaxRecords - Total(given)) :
            /\ pending' = l
            /\ given' = [given EXCEPT ![c] = Len(l)]
       /\ visited' = Append(visited, c)
  /\ mpc' = "records"
  /\ UNCHANGED <<db, file, data, keyOrder, pos, acc, result, dbBefore,
                 made, createdRefs, refFailures, vvars>>

\* What the create call of category c does with a valid record r: the
\* outcomes it may have, each with the store it leaves.
CreateOutcomes(d, c, r) ==
  CASE c = "products" ->
         {[outcome |-> "created", db |-> create_product(d, r.name, ImportPrice)],
          [outcome |-> "rejected", db |-> d]}
    [] c = "branches" ->
         {[outcome |-> "created", db |-> create_branch(d, r.name)],
          [outcome |-> "rejected", db |-> d]}
    [] c = "inventory" ->
         LET p == IdByName(d.products, r.product)
             b == IdByName(d.branches, r.branch)
         IN IF ~ReferencesExist(d, p, b)
            THEN {[outcome |-> "missing_reference", db |-> d]}
            ELSE {[outcome |-> "created",
                   db |-> create_or_update_inventory(d, p, b, ImportQuantity,
                                                     now.month, now.year).db],
                  [outcome |-> "rejected", db |-> d]}
    [] OTHER ->
         {[outcome |-> "created", db |-> create_tail(d, c)],
          [outcome |-> "rejected", db |-> d]}

\* migrate_from_json: one record of the current category.
M_Record ==
  /\ mpc = "records"
  /\ pending # <<>>
  /\ LET c == ProcessingOrder(keyOrder)[pos]
         r == Head(pending)
     IN \E o \in (IF r.valid THEN CreateOutcomes(db, c, r)
                   ELSE {[outcome |-> "missing_field", db |-> db]}) :
          /\ db' = o.db
          /\ acc' = Account(acc, c, o.outcome)
          /\ made' = IF o.outcome = "created" THEN [made EXCEPT ![c] = @ + 1] ELSE made
          /\ createdRefs' =
               IF o.outcome = "created" /\ c \in {"products", "branches"}
               THEN createdRefs \cup {r.name} ELSE createdRefs
          /\ refFailures' =
               IF o.outcome = "missing_reference"
               THEN refFailures \cup {<<r.product, r.branch>>} ELSE refFailures
  /\ pending' = Tail(pending)
  /\ UNCHANGED <<file, mpc, data, keyOrder, pos, result, dbBefore, visited, given, vvars>>

\* migrate_from_json: the current category's list is exhausted.
M_CategoryDone ==
  /\ mpc = "records"
  /\ pending = <<>>
  /\ pos' = pos + 1
  /\ mpc' = "category"
  /\ UNCHANGED <<db, file, data, keyOrder, pending, acc, result, dbBefore,
                 visited, given, made, createdRefs, refFailures, vvars>>

\* migrate_from_json returns, and migrate_from_file returns its result (line 50).
M_Return ==
  /\ mpc = "category"
  /\ pos > Len(ProcessingOrder(keyOrder))
  /\ result' = MigrationResult(acc)
  /\ mpc' = "returned"
  /\ UNCHANGED <<db, file, data, keyOrder, pos, pending, acc, dbBefore,
                 visited, given, made, createdRefs, refFailures, vvars>>

\* The validator before it is run.
ValidatorIdle ==
  /\ vpc = "start"
  /\ idx = 1
  /\ results = <<>>
  /\ all_passed = TRUE
  /\ exitCode = NoExit
  /\ loc = NoLocals
  /\ started = <<>>
  /\ verdict = <<>>
  /\ created = {}
  /\ issued = <<>>
  /\ failed = {}

(***************************************************************************)
(* validate.py                                                             *)
(***************************************************************************)
\* The tests list of lines 342-347.
Tests == <<"Product Operations", "Branch Operations", "Inventory Operations",
           "Load Performance">>

\* The first step of each test function.
FirstStep ==
  [g \in {Tests[k] : k \in 1..Len(Tests)} |->
     CASE g = "Product Operations" -> "p_create"
       [] g = "Branch Operations" -> "b_create"
       [] g = "Inventory Operations" -> "i_product"
       [] OTHER -> "l_create"]

\* How a call of the persistence API may end: with its effect and result,
\* with a falsy result and no effect, or in an exception.
Outcomes == {"ok", "fail", "raise"}
\* A read of the store returns what the store holds, or raises.
ReadOutcomes == {"ok", "raise"}

\* search_products: the rows whose name contains the query.
search_products(d, q) ==
  {r \in d.products : q = "Updated" /\ r.name = "Updated Test Product"}

\* get_inventory_with_details: the inventory row joined with its product.
get_inventory_with_details(d, id) ==
  LET r == get_inventory_by_id(d, id) IN
    IF r # NoRow /\ get_product_by_id(d, r.product_id) # NoRow
    THEN [id |-> r.id, product_name |-> get_product_by_id(d, r.product_id).name]
    ELSE NoRow

\* (mutant) an exception of a test function is logged and not counted.
RecordOutcomeLenient(res, passed, g, out) ==
  [results |-> (g :> (out # "false")) @@ res,
   all_passed |-> passed /\ (out # "false")]

\* Lines 354-362: the entry of results and all_passed after test g ended with
\* out: returned true, returned false or raised.
RecordOutcome(res, passed, g, out) ==
  [results |-> (g :> (out = "true")) @@ res,
   all_passed |-> passed /\ (out = "true")]

\* (mutant) an exception of a test function ends the loop.
FinishStopsOnRaise(out) ==
  LET g == Tests[idx]
      rec == RecordOutcome(results, all_passed, g, out)
  IN /\ results' = rec.results
     /\ all_passed' = rec.all_passed
     /\ verdict' = (g :> out) @@ verdict
     /\ idx' = IF out = "raise" THEN Len(Tests) + 1 ELSE idx + 1
     /\ vpc' = "loop"

\* The test function ends (returns true or false, or raises) and the loop of
\* line 352 goes on to its next element.
Finish(out) ==
  LET g == Tests[idx]
      rec == RecordOutcome(results, all_passed, g, out)
  IN /\ results' = rec.results
     /\ all_passed' = rec.all_passed
     /\ verdict' = (g :> out) @@ verdict
     /\ idx' = idx + 1
     /\ vpc' = "loop"

\* The test function goes on to its next call.
Continue(next) ==
  /\ vpc' = next
  /\ UNCHANGED <<idx, results, all_passed, verdict>>

Created(table, id) == [group |-> Tests[idx], table |-> table, id |-> id]

\* Lines 333-336: create_app and initialize_database.
V_Initialize ==
  /\ vpc = "start"
  /\ db' = init_db(db)
  /\ vpc' = "loop"
  /\ UNCHANGED <<idx, results, all_passed, exitCode, loc, started, verdict,
                 created, issued, failed, mvars>>

\* Lines 352-355: the loop calls the next test function.
V_RunTest ==
  /\ vpc = "loop"
  /\ idx <= Len(Tests)
  /\ started' = Append(started, Tests[idx])
  /\ loc' = NoLocals
  /\ vpc' = FirstStep[Tests[idx]]
  /\ UNCHANGED <<db, idx, results, all_passed, exitCode, verdict,
                 created, issued, failed, mvars>>

\* Lines 364-378: the report, the return of all_passed and the exit code.
V_Report ==
  /\ vpc = "loop"
  /\ idx > Len(Tests)
  /\ exitCode' = IF all_passed THEN <<0>> ELSE <<1>>
  /\ vpc' = "exit"
  /\ UNCHANGED <<db, idx, results, all_passed, loc, started, verdict,
                 created, issued, failed, mvars>>

\* ---- test_product_operations

\* Lines 35-56: create_product.
P_Create ==
  /\ vpc = "p_create"
  /\ \E o \in Outcomes :
       CASE o = "raise" -> Finish("raise") /\ UNCHANGED <<db, loc, created>>
         [] o = "fail" -> Finish("false") /\ UNCHANGED <<db, loc, created>>
         [] OTHER ->
              /\ db' = create_product(db, "Test Product", 100)
              /\ loc' = [loc EXCEPT !.product_id = db.nextId.products]
              /\ created' = created \cup {Created("products", db.nextId.products)}
              /\ Continue("p_get")
  /\ UNCHANGED <<exitCode, started, issued, failed, mvars>>

\* Lines 59-64: get_product_by_id.
P_Get ==
  /\ vpc = "p_get"
  /\ \E o \in ReadOutcomes :
       IF o = "raise" THEN Finish("raise") /\ loc' = loc
       ELSE LET product == get_product_by_id(db, loc.product_id) IN
              /\ loc' = [loc EXCEPT !.fetched = [at |-> "p_get", row |-> product]]
              /\ IF product = NoRow \/ product.name # "Test Product"
                 THEN Finish("false") ELSE Continue("p_update")
  /\ UNCHANGED <<db, exitCode, started, created, issued, failed, mvars>>

\* Lines 67-75: update_product.
P_Update ==
  /\ vpc = "p_update"
  /\ \E o \in Outcomes :
       CASE o = "raise" -> Finish("raise") /\ db' = db
         [] o = "fail" -> Finish("false") /\ db' = db
         [] OTHER ->
              /\ db' = update_product(db, loc.product_id, "Updated Test Product", 120)
              /\ Continue("p_verify")
  /\ UNCHANGED <<exitCode, loc, started, created, issued, failed, mvars>>

\* Lines 78-83: the update is read back.
P_Verify ==
  /\ vpc = "p_verify"
  /\ \E o \in ReadOutcomes :
       IF o = "raise" THEN Finish("raise") /\ loc' = loc
       ELSE LET product == get_product_by_id(db, loc.product_id) IN
              /\ loc' = [loc EXCEPT !.fetched = [at |-> "p_verify", row |-> product]]
              /\ IF product = NoRow \/ product.name # "Updated Test Product"
                    \/ product.price # 120
                 THEN Finish("false") ELSE Continue("p_search")
  /\ UNCHANGED <<db, exitCode, started, created, issued, failed, mvars>>

\* Lines 86-91: search_products; the first row of the result must be the
\* product of the test, and the order of the rows is the store's.
P_Search ==
  /\ vpc = "p_search"
  /\ \E o \in ReadOutcomes :
       IF o = "raise" THEN Finish("raise")
       ELSE LET search_results == search_products(db, "Updated") IN
              IF search_results = {} THEN Finish("false")
              ELSE \E first \in search_results :
                     IF first.id # loc.product_id
                     THEN Finish("false") ELSE Continue("p_delete")
  /\ UNCHANGED <<db, exitCode, loc, started, created, issued, failed, mvars>>

\* Lines 94-97: delete_product.
P_Delete ==
  /\ vpc = "p_delete"
  /\ issued' = Append(issued, [table |-> "products", id |-> loc.product_id])
  /\ \E o \in Outcomes :
       CASE o = "raise" -> Finish("raise") /\ UNCHANGED <<db, failed>>
         [] o = "fail" ->
              /\ Finish("false")
              /\ failed' = failed \cup {[table |-> "products", id |-> loc.product_id]}
              /\ db' = db
         [] OTHER ->
              /\ db' = delete_product(db, loc.product_id)
              /\ failed' = failed
              /\ Continue("p_gone")
  /\ UNCHANGED <<exitCode, loc, started, created, mvars>>

\* Lines 100-107: the deletion is verified and the test returns True.
P_Gone ==
  /\ vpc = "p_gone"
  /\ \E o \in ReadOutcomes :
       IF o = "raise" THEN Finish("raise") /\ loc' = loc
       ELSE LET deleted_product == get_product_by_id(db, loc.product_id) IN
              /\ loc' = [loc EXCEPT !.fetched = [at |-> "p_gone", row |-> deleted_product]]
              /\ IF deleted_product # NoRow
                 THEN Finish("false") ELSE Finish("true")
  /\ UNCHANGED <<db, exitCode, started, created, issued, failed, mvars>>

\* ---- test_branch_operations

\* Lines 111-130: create_branch.
B_Create ==
  /\ vpc = "b_create"
  /\ \E o \in Outcomes :
       CASE o = "raise" -> Finish("raise") /\ UNCHANGED <<db, loc, created>>
         [] o = "fail" -> Finish("false") /\ UNCHANGED <<db, loc, created>>
         [] OTHER ->
              /\ db' = create_branch(db, "Test Branch")
              /\ loc' = [loc EXCEPT !.branch_id = db.nextId.branches]
              /\ created' = created \cup {Created("branches", db.nextId.branches)}
              /\ Continue("b_get")
  /\ UNCHANGED <<exitCode, started, issued, failed, mvars>>

\* Lines 133-138: get_branch_by_id.
B_Get ==
  /\ vpc = "b_get"
  /\ \E o \in ReadOutcomes :
       IF o = "raise" THEN Finish("raise") /\ loc' = loc
       ELSE LET branch == get_branch_by_id(db, loc.branch_id) IN
              /\ loc' = [loc EXCEPT !.fetched = [at |-> "b_get", row |-> branch]]
              /\ IF branch = NoRow \/ branch.name # "Test Branch"
                 THEN Finish("false") ELSE Continue("b_update")
  /\ UNCHANGED <<db, exitCode, started, created, issued, failed, mvars>>

\* Lines 141-149: update_branch.
B_Update ==
  /\ vpc = "b_update"
  /\ \E o \in Outcomes :
       CASE o = "raise" -> Finish("raise") /\ db' = db
         [] o = "fail" -> Finish("false") /\ db' = db
         [] OTHER ->
              /\ db' = update_branch(db, loc.branch_id, "Updated Test Branch")
              /\ Continue("b_verify")
  /\ UNCHANGED <<exitCode, loc, started, created, issued, failed, mvars>>

\* Lines 152-157: the update is read back.
B_Verify ==
  /\ vpc = "b_verify"
  /\ \E o \in ReadOutcomes :
       IF o = "raise" THEN Finish("raise") /\ loc' = loc
       ELSE LET branch == get_branch_by_id(db, loc.branch_id) IN
              /\ loc' = [loc EXCEPT !.fetched = [at |-> "b_verify", row |-> branch]]
              /\ IF branch = NoRow \/ branch.name # "Updated Test Branch"
                 THEN Finish("false") ELSE Continue("b_delete")
  /\ UNCHANGED <<db, exitCode, started, created, issued, failed, mvars>>

\* Lines 160-163: delete_branch.
B_Delete ==
  /\ vpc = "b_delete"
  /\ issued' = Append(issued, [table |-> "branches", id |-> loc.branch_id])
  /\ \E o \in Outcomes :
       CASE o = "raise" -> Finish("raise") /\ UNCHANGED <<db, failed>>
         [] o = "fail" ->
              /\ Finish("false")
              /\ failed' = failed \cup {[table |-> "branches", id |-> loc.branch_id]}
              /\ db' = db
         [] OTHER ->
              /\ db' = delete_branch(db, loc.branch_id)
              /\ failed' = failed
              /\ Continue("b_gone")
  /\ UNCHANGED <<exitCode, loc, started, created, mvars>>

\* Lines 166-173: the deletion is verified and the test returns True.
B_Gone ==
  /\ vpc = "b_gone"
  /\ \E o \in ReadOutcomes :
       IF o = "raise" THEN Finish("raise") /\ loc' = loc
       ELSE LET deleted_branch == get_branch_by_id(db, loc.branch_id) IN
              /\ loc' = [loc EXCEPT !.fetched = [at |-> "b_gone", row |-> deleted_branch]]
              /\ IF deleted_branch # NoRow
                 THEN Finish("false") ELSE Finish("true")
  /\ UNCHANGED <<db, exitCode, started, created, issued, failed, mvars>>

\* ---- test_inventory_operations

\* Lines 177-194: create_product; its result is looked at after create_branch.
I_Product ==
  /\ vpc = "i_product"
  /\ \E o \in Outcomes :
       CASE o = "raise" -> Finish("raise") /\ UNCHANGED <<db, loc, created>>
         [] o = "fail" -> Continue("i_branch") /\ UNCHANGED <<db, loc, created>>
         [] OTHER ->
              /\ db' = create_product(db, "Inventory Test Product", 100)
              /\ loc' = [loc EXCEPT !.product_id = db.nextId.products]
              /\ created' = created \cup {Created("products", db.nextId.products)}
              /\ Continue("i_branch")
  /\ UNCHANGED <<exitCode, started, issued, failed, mvars>>

\* Lines 196-203: create_branch, then the check of both ids.
I_Branch ==
  /\ vpc = "i_branch"
  /\ \E o \in Outcomes :
       CASE o = "raise" -> Finish("raise") /\ UNCHANGED <<db, loc, created>>
         [] o = "fail" -> Finish("false") /\ UNCHANGED <<db, loc, created>>
         [] OTHER ->
              /\ db' = create_branch(db, "Inventory Test Branch")
              /\ loc' = [loc EXCEPT !.branch_id = db.nextId.branches]
              /\ created' = created \cup {Created("branches", db.nextId.branches)}
              /\ IF loc.product_id = NoId
                 THEN Finish("false") ELSE Continue("i_create")
  /\ UNCHANGED <<exitCode, started, issued, failed, mvars>>

\* Lines 206-223: create_or_update_inventory with quantity 100.
I_Create ==
  /\ vpc = "i_create"
  /\ \E o \in Outcomes :
       CASE o = "raise" -> Finish("raise") /\ UNCHANGED <<db, loc, created>>
         [] o = "fail" -> Finish("false") /\ UNCHANGED <<db, loc, created>>
         [] OTHER ->
              LET w == create_or_update_inventory(db, loc.product_id, loc.branch_id,
                                                  100, now.month, now.year)
              IN /\ db' = w.db
                 /\ loc' = [loc EXCEPT !.inventory_id = w.id]
                 /\ created' = created \cup {Created("inventory", w.id)}
                 /\ Continue("i_get")
  /\ UNCHANGED <<exitCode, started, issued, failed, mvars>>

\* Lines 226-231: get_inventory_by_id.
I_Get ==
  /\ vpc = "i_get"
  /\ \E o \in ReadOutcomes :
       IF o = "raise" THEN Finish("raise") /\ loc' = loc
       ELSE LET inventory == get_inventory_by_id(db, loc.inventory_id) IN
              /\ loc' = [loc EXCEPT !.fetched = [at |-> "i_get", row |-> inventory]]
              /\ IF inventory = NoRow \/ inventory.quantity # 100
                 THEN Finish("false") ELSE Continue("i_update")
  /\ UNCHANGED <<db, exitCode, started, created, issued, failed, mvars>>

\* Lines 234-244: create_or_update_inventory with the same key and quantity
\* 150; the id it returns must be the first one.
I_Update ==
  /\ vpc = "i_update"
  /\ \E o \in Outcomes :
       CASE o = "raise" -> Finish("raise") /\ UNCHANGED <<db, loc, created>>
         [] o = "fail" -> Finish("false") /\ UNCHANGED <<db, loc, created>>
         [] OTHER ->
              LET w == create_or_update_inventory(db, loc.product_id, loc.branch_id,
                                                  150, now.month, now.year)
              IN /\ db' = w.db
                 /\ loc' = [loc EXCEPT !.updated_id = w.id]
                 /\ created' = created \cup {Created("inventory", w.id)}
                 /\ IF w.id # loc.inventory_id
                    THEN Finish("false") ELSE Continue("i_verify")
  /\ UNCHANGED <<exitCode, started, issued, failed, mvars>>

\* Lines 247-252: the update is read back.
I_Verify ==
  /\ vpc = "i_verify"
  /\ \E o \in ReadOutcomes :
       IF o = "raise" THEN Finish("raise") /\ loc' = loc
       ELSE LET updated_inventory == get_inventory_by_id(db, loc.inventory_id) IN
              /\ loc' = [loc EXCEPT !.fetched = [at |-> "i_verify", row |-> updated_inventory]]
              /\ IF updated_inventory = NoRow \/ updated_inventory.quantity # 150
                 THEN Finish("false") ELSE Continue("i_details")
  /\ UNCHANGED <<db, exitCode, started, created, issued, failed, mvars>>

\* Lines 255-260: get_inventory_with_details.
I_Details ==
  /\ vpc = "i_details"
  /\ \E o \in ReadOutcomes :
       IF o = "raise" THEN Finish("raise")
       ELSE IF get_inventory_with_details(db, loc.inventory_id) = NoRow
            THEN Finish("false") ELSE Continue("i_delete")
  /\ UNCHANGED <<db, exitCode, loc, started, created, issued, failed, mvars>>

\* Lines 263-266: delete_inventory.
I_Delete ==
  /\ vpc = "i_delete"
  /\ issued' = Append(issued, [table |-> "inventory", id |-> loc.inventory_id])
  /\ \E o \in Outcomes :
       CASE o = "raise" -> Finish("raise") /\ UNCHANGED <<db, failed>>
         [] o = "fail" ->
              /\ Finish("false")
              /\ failed' = failed \cup {[table |-> "inventory", id |-> loc.inventory_id]}
              /\ db' = db
         [] OTHER ->
              /\ db' = delete_inventory(db, loc.inventory_id)
              /\ failed' = failed
              /\ Continue("i_gone")
  /\ UNCHANGED <<exitCode, loc, started, created, mvars>>

\* Lines 269-274: the deletion is verified.
I_Gone ==
  /\ vpc = "i_gone"
  /\ \E o \in ReadOutcomes :
       IF o = "raise" THEN Finish("raise") /\ loc' = loc
       ELSE LET deleted_inventory == get_inventory_by_id(db, loc.inventory_id) IN
              /\ loc' = [loc EXCEPT !.fetched = [at |-> "i_gone", row |-> deleted_inventory]]
              /\ IF deleted_inventory # NoRow
                 THEN Finish("false") ELSE Continue("i_cleanup_product")
  /\ UNCHANGED <<db, exitCode, started, created, issued, failed, mvars>>

\* Line 280: delete_product, its result not looked at.
I_CleanupProduct ==
  /\ vpc = "i_cleanup_product"
  /\ issued' = Append(issued, [table |-> "products", id |-> loc.product_id])
  /\ \E o \in Outcomes :
       CASE o = "raise" -> Finish("raise") /\ UNCHANGED <<db, failed>>
         [] o = "fail" ->
              /\ Continue("i_cleanup_branch")
              /\ failed' = failed \cup {[table |-> "products", id |-> loc.product_id]}
              /\ db' = db
         [] OTHER ->
              /\ db' = delete_product(db, loc.product_id)
              /\ failed' = failed
              /\ Continue("i_cleanup_branch")
  /\ UNCHANGED <<exitCode, loc, started, created, mvars>>

\* (mutant) the test returns True without the delete_branch call.
I_CleanupBranchLeftOut ==
  /\ vpc = "i_cleanup_branch"
  /\ Finish("true")
  /\ UNCHANGED <<db, exitCode, loc, started, created, issued, failed, mvars>>

\* Lines 281-283: delete_branch, its result not looked at, and return True.
I_CleanupBranch ==
  /\ vpc = "i_cleanup_branch"
  /\ issued' = Append(issued, [table |-> "branches", id |-> loc.branch_id])
  /\ \E o \in Outcomes :
       CASE o = "raise" -> Finish("raise") /\ UNCHANGED <<db, failed>>
         [] o = "fail" ->
              /\ Finish("true")
              /\ failed' = failed \cup {[table |-> "branches", id |-> loc.branch_id]}
              /\ db' = db
         [] OTHER ->
              /\ db' = delete_branch(db, loc.branch_id)
              /\ failed' = failed
              /\ Finish("true")
  /\ UNCHANGED <<exitCode, loc, started, created, mvars>>

\* ---- test_load_performance

\* Lines 298-308: one round of the creation loop; an id is kept when the
\* create returned one.
L_Create ==
  /\ vpc = "l_create"
  /\ loc.i < NumProducts
  /\ \E o \in Outcomes :
       CASE o = "raise" -> Finish("raise") /\ UNCHANGED <<db, loc, created>>
         [] o = "fail" ->
              /\ loc' = [loc EXCEPT !.i = @ + 1]
              /\ Continue("l_create")
              /\ UNCHANGED <<db, created>>
         [] OTHER ->
              /\ db' = create_product(db, "Load Test Product", 10)
              /\ loc' = [loc EXCEPT !.i = @ + 1,
                                    !.product_ids = Append(@, db.nextId.products)]
              /\ created' = created \cup {Created("products", db.nextId.products)}
              /\ Continue("l_create")
  /\ UNCHANGED <<exitCode, started, issued, failed, mvars>>

\* Lines 310-318: get_all_products.
L_GetAll ==
  /\ vpc = "l_create"
  /\ loc.i = NumProducts
  /\ \E o \in ReadOutcomes :
       IF o = "raise" THEN Finish("raise") /\ loc' = loc
       ELSE loc' = [loc EXCEPT !.i = 0] /\ Continue("l_delete")
  /\ UNCHANGED <<db, exitCode, started, created, issued, failed, mvars>>

\* Lines 322-323: one round of the cleanup loop; the result of delete_product
\* is not looked at.
L_Delete ==
  /\ vpc = "l_delete"
  /\ loc.i < Len(loc.product_ids)
  /\ LET product_id == loc.product_ids[loc.i + 1] IN
       /\ issued' = Append(issued, [table |-> "products", id |-> product_id])
       /\ \E o \in Outcomes :
            CASE o = "raise" -> Finish("raise") /\ UNCHANGED <<db, loc, failed>>
              [] o = "fail" ->
                   /\ loc' = [loc EXCEPT !.i = @ + 1]
                   /\ failed' = failed \cup {[table |-> "products", id |-> product_id]}
                   /\ db' = db
                   /\ Continue("l_delete")
              [] OTHER ->
                   /\ db' = delete_product(db, product_id)
                   /\ loc' = [loc EXCEPT !.i = @ + 1]
                   /\ failed' = failed
                   /\ Continue("l_delete")
  /\ UNCHANGED <<exitCode, started, created, mvars>>

\* Lines 325-329: the three durations are compared with their thresholds.
L_Return ==
  /\ vpc = "l_delete"
  /\ loc.i = Len(loc.product_ids)
  /\ \E creation_ok, retrieval_ok, cleanup_ok \in BOOLEAN :
       Finish(IF creation_ok /\ retrieval_ok /\ cleanup_ok THEN "true" ELSE "false")
  /\ UNCHANGED <<db, exitCode, loc, started, created, issued, failed, mvars>>

\* The importer before it is run.
ImporterIdle ==
  /\ file = [ext |-> "json", readable |-> TRUE, body |-> "export"]
  /\ mpc = "start"
  /\ data = ""
  /\ keyOrder = CategoryOrder
  /\ pos = 0
  /\ pending = <<>>
  /\ acc = [counts |-> ZeroCounts, errors |-> <<>>]
  /\ result = NoResult
  /\ dbBefore = db
  /\ visited = <<>>
  /\ given = ZeroCounts
  /\ made = ZeroCounts
  /\ createdRefs = {}
  /\ refFailures = {}

\* A database the validator may be run on: a fresh file, one with schema, or
\* one that holds the product an earlier run left behind.
ValidatorDbs ==
  {FreshDb, init_db(FreshDb),
   create_product(init_db(FreshDb), "Updated Test Product", 120)}

InitValidate ==
  /\ db \in ValidatorDbs
  /\ ValidatorIdle
  /\ ImporterIdle

NextValidate ==
  \/ V_Initialize
  \/ V_RunTest
  \/ V_Report
  \/ P_Create
  \/ P_Get
  \/ P_Update
  \/ P_Verify
  \/ P_Search
  \/ P_Delete
  \/ P_Gone
  \/ B_Create
  \/ B_Get
  \/ B_Update
  \/ B_Verify
  \/ B_Delete
  \/ B_Gone
  \/ I_Product
  \/ I_Branch
  \/ I_Create
  \/ I_Get
  \/ I_Update
  \/ I_Verify
  \/ I_Details
  \/ I_Delete
  \/ I_Gone
  \/ I_CleanupProduct
  \/ I_CleanupBranch
  \/ L_Create
  \/ L_GetAll
  \/ L_Delete
  \/ L_Return

\* A database the importer may be run on: a fresh file, or one with schema
\* and possibly a product and a branch of an earlier import.
InitialDbs ==
  {FreshDb, init_db(FreshDb),
   create_branch(create_product(init_db(FreshDb), "A", ImportPrice), "X")}

InitMigrate ==
  /\ db \in InitialDbs
  /\ file \in Files
  /\ mpc = "start"
  /\ data = ""
  /\ keyOrder = CategoryOrder
  /\ pos = 0
  /\ pending = <<>>
  /\ acc = [counts |-> ZeroCounts, errors |-> <<>>]
  /\ result = NoResult
  /\ dbBefore = db
  /\ visited = <<>>
  /\ given = ZeroCounts
  /\ made = ZeroCounts
  /\ createdRefs = {}
  /\ refFailures = {}
  /\ ValidatorIdle

NextMigrate ==
  \/ M_InitDb
  \/ M_Unsupported
  \/ M_ReadFile
  \/ M_Extract
  \/ M_Parse
  \/ M_Category
  \/ M_Record
  \/ M_CategoryDone
  \/ M_Return

vars == <<db, mvars, vvars>>

SpecMigrate == InitMigrate /\ [][NextMigrate]_vars

SpecValidate == InitValidate /\ [][NextValidate]_vars

(***************************************************************************)
(* The importer's claims.                                                  *)
(***************************************************************************)
\* The rows of a store, its schema aside.
Rows(d) == [d EXCEPT !.schema = TRUE]

\* The number of errors the importer logged for category c.
ErrorsOf(errs, c) == Cardinality({k \in 1..Len(errs) : errs[k].cat = c})

\* The category whose records are being processed.
Current == IF mpc = "records" THEN ProcessingOrder(keyOrder)[pos] ELSE "none"

\* C1: for a path that ends in neither .json nor .html the call returns
\* success=false with the unsupported-type error, and at no point of the call
\* is the database written: the store stays what it was when the call began,
\* the schema initialisation of init_db included.
C1_UnsupportedLeavesStoreUntouched ==
  file.ext \notin {"json", "html"} =>
    /\ db = dbBefore
    /\ mpc # "crashed"
    /\ mpc = "returned" =>
         /\ result.success = FALSE
         /\ result.error = "Unsupported file type. Use .json or .html"

\* The file cannot be processed at all: unsupported extension, unreadable
\* file, or a JSON / local-storage payload that cannot be decoded.
TopLevelFailure(f) ==
  \/ f.ext \notin {"json", "html"}
  \/ ~f.readable
  \/ f.body # "export"

\* C2: whenever the top-level file cannot be processed at all, the call ends
\* by returning {success: false, error, errors} with a single error message,
\* never in an uncaught exception and never in a result without 'errors'.
C2_TopLevelFailureShape ==
  TopLevelFailure(file) =>
    /\ mpc # "crashed"
    /\ mpc = "returned" =>
         /\ result.success = FALSE
         /\ {"success", "error", "errors"} \subseteq result.keys
         /\ Len(result.errors) = 1

\* C3: an .html file without local-storage payload ends in a failure result,
\* not a crash, whether extract_localstorage_from_html fails or returns an
\* empty value, and no create operation is invoked.
C3_NoPayloadIsFailureNotCrash ==
  (file.ext = "html" /\ file.readable /\ file.body = "nopayload") =>
    /\ mpc # "crashed"
    /\ mpc = "returned" => result.success = FALSE
    /\ visited = <<>>
    /\ Rows(db) = Rows(dbBefore)

\* C4: a .json file whose body is not parsable JSON returns success=false and
\* no record of any category has been created: the parse is over before the
\* first create operation.
C4_MalformedJsonWritesNothing ==
  (file.ext = "json" /\ file.readable /\ file.body = "malformed") =>
    /\ mpc # "crashed"
    /\ mpc = "returned" => result.success = FALSE
    /\ mpc \notin {"category", "records"}
    /\ visited = <<>>
    /\ made = ZeroCounts
    /\ Rows(db) = Rows(dbBefore)

C4_Witness ==
  /\ file.ext = "json" /\ file.readable /\ file.body = "malformed"
  /\ mpc = "returned"
  /\ result = ParseFailure

\* C5: an export that parses ends in success=true with every record accounted
\* for exactly once: a valid record whose create succeeds adds one to its
\* category's counter and no error; any other record is skipped, leaves the
\* counter, adds exactly one error, and the records after it are processed.
\* With N valid records, all created, the counter is N and the category has
\* no error.
C5_RecordsAccountedOnce ==
  /\ \A c \in Categories :
       /\ acc.counts[c] = made[c]
       /\ made[c] + ErrorsOf(acc.errors, c)
            + (IF Current = c THEN Len(pending) ELSE 0) = given[c]
  /\ (mpc = "returned" /\ data = "export") =>
       /\ result.success = TRUE
       /\ result.counts = made
       /\ result.errors = acc.errors
       /\ \A c \in Categories :
            /\ result.counts[c] + ErrorsOf(result.errors, c) = given[c]
            /\ made[c] = given[c] => ErrorsOf(result.errors, c) = 0

C5_Witness ==
  /\ mpc = "returned"
  /\ result.success = TRUE
  /\ given["products"] = 2
  /\ made["products"] = 1
  /\ ErrorsOf(result.errors, "products") = 1
  /\ made["branches"] = 1

TestNames == {Tests[k] : k \in 1..Len(Tests)}

\* Test group g ended with out.
Ended(g, out) == g \in DOMAIN verdict /\ verdict[g] = out

\* C7: the validation run exits with code 0 exactly when each of the four
\* test groups returned true without raising; when a group returns false or
\* raises, run_validation_tests returns false and the exit code is 1.
C7_ExitCodeIffAllPassed ==
  vpc = "exit" =>
    /\ exitCode \in {<<0>>, <<1>>}
    /\ exitCode = <<0>> <=> \A g \in TestNames : Ended(g, "true")
    /\ (\E g \in TestNames : Ended(g, "false") \/ Ended(g, "raise")) =>
         (all_passed = FALSE /\ exitCode = <<1>>)

C7_Witness ==
  /\ vpc = "exit"
  /\ exitCode = <<1>>
  /\ Ended("Product Operations", "true")
  /\ Ended("Branch Operations", "raise")
  /\ Ended("Inventory Operations", "true")
  /\ Ended("Load Performance", "true")

\* C8: an exception inside a test group is caught and recorded as the group's
\* failure, and the run goes on: the four groups are started once each, in
\* the order Product, Branch, Inventory, Load Performance, and at the report
\* the results map holds one boolean per group.
C8_ExceptionCaughtRunGoesOn ==
  /\ started = SubSeq(Tests, 1, Len(started))
  /\ DOMAIN results = DOMAIN verdict
  /\ \A g \in DOMAIN verdict :
       /\ results[g] \in BOOLEAN
       /\ verdict[g] = "raise" => results[g] = FALSE
  /\ Len(started) = (IF vpc \in {"start", "loop", "exit"} THEN idx - 1 ELSE idx)
  /\ vpc = "exit" =>
       /\ started = Tests
       /\ DOMAIN results = TestNames

C8_Witness ==
  /\ vpc = "exit"
  /\ started = Tests
  /\ Ended("Product Operations", "raise")
  /\ Ended("Inventory Operations", "raise")
  /\ Ended("Load Performance", "true")
  /\ results["Product Operations"] = FALSE

SameKey(r1, r2) ==
  /\ r1.product_id = r2.product_id
  /\ r1.branch_id = r2.branch_id
  /\ r1.month = r2.month
  /\ r1.year = r2.year

InStore(c) ==
  CASE c.table = "products" -> \E r \in db.products : r.id = c.id
    [] c.table = "branches" -> \E r \in db.branches : r.id = c.id
    [] OTHER -> \E r \in db.inventory : r.id = c.id

\* The place of the first delete of a row among the deletes called, 0 if none.
IssuedAt(table, id) ==
  IF \E k \in 1..Len(issued) : issued[k] = [table |-> table, id |-> id]
  THEN CHOOSE k \in 1..Len(issued) :
         /\ issued[k] = [table |-> table, id |-> id]
         /\ \A j \in 1..(k - 1) : issued[j] # issued[k]
  ELSE 0

\* When a test group returned true, a delete was called for every row it
\* created; the inventory group deletes its inventory row first, then its
\* product, then its branch.
DeleteIssuedForAll ==
  \A g \in DOMAIN verdict :
    verdict[g] = "true" =>
      /\ \A c \in created : c.group = g => IssuedAt(c.table, c.id) > 0
      /\ \A c1, c2 \in created :
           (/\ c1.group = "Inventory Operations"
            /\ c2.group = "Inventory Operations"
            /\ g = "Inventory Operations"
            /\ \/ c1.table = "inventory" /\ c2.table \in {"products", "branches"}
               \/ c1.table = "products" /\ c2.table = "branches")
             => IssuedAt(c1.table, c1.id) < IssuedAt(c2.table, c2.id)

AllPassedExit == vpc = "exit" /\ \A g \in TestNames : Ended(g, "true")

\* C10 as stated: when a test group returned true a delete was called for
\* every row it created, and so a run in which the four groups pass leaves
\* in the store no row the validator created.
C10_NothingLeftBehind ==
  /\ DeleteIssuedForAll
  /\ AllPassedExit => \A c \in created : ~InStore(c)

\* C10 as amended: when a test group returned true a delete was called for
\* every row it created; after a run in which the four groups pass, the rows
\* the validator created and the store still holds are products and branches
\* of the inventory and load groups whose delete, its result not looked at,
\* returned false.
C10_DeletesIssuedUncheckedMayFail ==
  /\ DeleteIssuedForAll
  /\ AllPassedExit =>
       \A c \in created :
         InStore(c) =>
           /\ [table |-> c.table, id |-> c.id] \in failed
           /\ c.table \in {"products", "branches"}
           /\ c.group \in {"Inventory Operations", "Load Performance"}

C10_Witness ==
  /\ AllPassedExit
  /\ \E c \in created : c.group = "Inventory Operations" /\ c.table = "branches" /\ InStore(c)
  /\ \E c \in created : c.group = "Load Performance" /\ ~InStore(c)

====
